---- MODULE Spec2Model ----
(***************************************************************************)
(* Model of src/httploader.py: the request scheduling of                   *)
(* AdvancedLoadTester (semaphore, staircase delay, as_completed collector) *)
(* and the classification done by StatisticsCalculator.                    *)
(*                                                                         *)
(* Time is a discrete clock of whole seconds (the staircase delay i // R   *)
(* is a whole number of seconds).  Each request task is a coroutine whose  *)
(* position is kept in tasks[i].state:                                     *)
(*   "created"   create_task was called, the coroutine has not run yet     *)
(*   "waiting"   suspended in `async with self.semaphore` (no permit)      *)
(*   "sleeping"  holds a permit, suspended in asyncio.sleep(request_delay) *)
(*   "calling"   holds a permit, suspended in the HTTP call                *)
(*   "done"      returned a TestResult (permit released)                   *)
(*   "cancelled" ended by CancelledError (permit released if it held one)  *)
(* tasks[i].waited and tasks[i].call are history fields: whether the task   *)
(* was ever queued for a permit, and what its HTTP call did.                *)
(***************************************************************************)
EXTENDS Integers, Sequences, FiniteSets

\* ---- bounds of the model ------------------------------------------------
MaxRequests == 2
MaxConcurrent == 2
MaxRate == 2
MaxTime == 2

\* ---- values --------------------------------------------------------------
\* Python's None for TestResult.error
None == "None"

\* HTTP statuses the target may answer with (1xx, 2xx, 4xx)
Statuses == {101, 200, 404}

\* length of the body the target sends with each status (len(content))
BodySize(status) == IF status = 101 THEN 0 ELSE IF status = 200 THEN 2 ELSE 1

\* failures of the HTTP call that single_request's except clauses handle
FailureKinds == {"TimeoutError", "ClientError", "UnexpectedError"}

NoResult == [status_code |-> 0, response_time |-> 0, response_size_bytes |-> 0, error |-> None]

NoReport == [printed |-> FALSE]

VARIABLES config, pc, now, t0, tasks, semaphore, waiters, doneq, results, completed, report

vars == <<config, pc, now, t0, tasks, semaphore, waiters, doneq, results, completed, report>>

\* ---- helpers ---------------------------------------------------------------
RECURSIVE SumSeq(_)
SumSeq(s) == IF s = <<>> THEN 0 ELSE Head(s) + SumSeq(Tail(s))

RemoveFrom(s, x) == SelectSeq(s, LAMBDA y : y # x)

TaskIds == DOMAIN tasks

\* tasks that hold an unreleased permit (inside `async with self.semaphore`)
Holders == {i \in TaskIds : tasks[i].state \in {"sleeping", "calling"}}

Settled(i) == tasks[i].state \in {"done", "cancelled"}

\* ---- construction (AdvancedLoadTester.__init__, _validate_config) -----------
\* variant of ValidConfig without the check of the rate
ValidConfigNoRate(c) ==
    /\ c.requests > 0
    /\ c.concurrent > 0
    /\ c.url_ok

ValidConfig(c) ==
    /\ c.requests > 0
    /\ c.concurrent > 0
    /\ c.rate > 0
    /\ c.url_ok

Init ==
    /\ config \in [requests : 0..MaxRequests, concurrent : 0..MaxConcurrent,
                   rate : 0..MaxRate, url_ok : BOOLEAN]
    /\ pc = "start"
    /\ now = 0
    /\ t0 = 0
    /\ tasks = <<>>
    /\ semaphore = 0
    /\ waiters = <<>>
    /\ doneq = <<>>
    /\ results = <<>>
    /\ completed = 0
    /\ report = NoReport

\* main: tester = AdvancedLoadTester(**config); ValueError -> "Configuration error"
Construct ==
    /\ pc = "start"
    /\ IF ValidConfig(config)
          THEN /\ pc' = "created"
               /\ semaphore' = config.concurrent
          ELSE /\ pc' = "config_error"
               /\ UNCHANGED semaphore
    /\ UNCHANGED <<config, now, t0, tasks, waiters, doneq, results, completed, report>>

\* ---- run_test: task creation --------------------------------------------------
\* variant of StaircaseDelay that counts the groups down from the last request
StaircaseDelayReversed(i, rate) == IF rate > 0 THEN (config.requests - 1 - i) \div rate ELSE 0

\* delay = (i // rate) if rate > 0 else 0
StaircaseDelay(i, rate) == IF rate > 0 THEN i \div rate ELSE 0

NewTask(i) == [state |-> "created", delay |-> StaircaseDelay(i, config.rate),
               wake |-> 0, start_time |-> 0, result |-> NoResult,
               waited |-> FALSE, call |-> "none"]

\* main takes start_time, run_test creates the N tasks and resets self.results
StartRun ==
    /\ pc = "created"
    /\ pc' = "collecting"
    /\ t0' = now
    /\ tasks' = [i \in 0..(config.requests - 1) |-> NewTask(i)]
    /\ results' = <<>>
    /\ UNCHANGED <<config, now, semaphore, waiters, doneq, completed, report>>

\* ---- single_request ------------------------------------------------------------
\* variant of CanAcquire that also hands out a permit when none is left
CanAcquireOpen(value) == value >= 0

\* variant of CanAcquire that keeps the last permit back
CanAcquireAboveOne(value) == value > 1

\* asyncio.Semaphore: a permit can be taken while the counter is positive
CanAcquire(value) == value > 0

\* variant of WakeTime for a sleep that returns at once
WakeTimeNoSleep(t, delay) == t

\* asyncio.sleep(request_delay) ends no earlier than request_delay after it began
WakeTime(t, delay) == t + delay

\* the task's position right after it got its permit:
\* `if request_delay: await asyncio.sleep(request_delay)`, else start_time = time.time()
AfterAcquire(task) ==
    IF task.delay # 0
       THEN [task EXCEPT !.state = "sleeping", !.wake = WakeTime(now, task.delay)]
       ELSE [task EXCEPT !.state = "calling", !.start_time = now]

\* the event loop runs the tasks' first steps in creation order
StartTask(i) ==
    /\ pc = "collecting"
    /\ i \in TaskIds
    /\ tasks[i].state = "created"
    /\ \A j \in TaskIds : j < i => tasks[j].state # "created"
    /\ IF CanAcquire(semaphore) /\ waiters = <<>>
          THEN /\ semaphore' = semaphore - 1
               /\ tasks' = [tasks EXCEPT ![i] = AfterAcquire(tasks[i])]
               /\ UNCHANGED waiters
          ELSE /\ tasks' = [tasks EXCEPT ![i].state = "waiting", ![i].waited = TRUE]
               /\ waiters' = Append(waiters, i)
               /\ UNCHANGED semaphore
    /\ UNCHANGED <<config, pc, now, t0, doneq, results, completed, report>>

\* a released permit goes to the longest waiting task (FIFO waiters of asyncio.Semaphore)
GrantPermit ==
    /\ pc = "collecting"
    /\ waiters # <<>>
    /\ CanAcquire(semaphore)
    /\ LET i == Head(waiters) IN
          /\ semaphore' = semaphore - 1
          /\ waiters' = Tail(waiters)
          /\ tasks' = [tasks EXCEPT ![i] = AfterAcquire(tasks[i])]
    /\ UNCHANGED <<config, pc, now, t0, doneq, results, completed, report>>

\* the event loop fires the timers that are due in the order of their deadlines,
\* and timers of one deadline in the order they were set (the order of the
\* acquisitions, which is the index order)
FirstTimer(i) ==
    \A k \in TaskIds :
        tasks[k].state = "sleeping" =>
            \/ tasks[k].wake > tasks[i].wake
            \/ (tasks[k].wake = tasks[i].wake /\ k >= i)

\* asyncio.sleep returns; start_time = time.time(); the request is sent
WakeUp(i) ==
    /\ pc = "collecting"
    /\ i \in TaskIds
    /\ tasks[i].state = "sleeping"
    /\ now >= tasks[i].wake
    /\ FirstTimer(i)
    /\ tasks' = [tasks EXCEPT ![i].state = "calling", ![i].wake = 0, ![i].start_time = now]
    /\ UNCHANGED <<config, pc, now, t0, semaphore, waiters, doneq, results, completed, report>>

\* variant of ResponseResult whose timer runs from the start of the run
ResponseResultFromRunStart(status, size, start) ==
    [status_code |-> status, response_time |-> now - t0,
     response_size_bytes |-> size, error |-> None]

\* TestResult built on a response (lines 201-205)
ResponseResult(status, size, start) ==
    [status_code |-> status, response_time |-> now - start,
     response_size_bytes |-> size, error |-> None]

\* variant of FailureResult for an except clause that builds no outcome
FailureResultRaises(kind, start) == NoResult

\* TestResult built by the except clauses (lines 206-226)
FailureResult(kind, start) ==
    [status_code |-> -1, response_time |-> now - start,
     response_size_bytes |-> 0, error |-> kind]

\* variant of SemaphoreExit that never gives the permit back
SemaphoreExitKeeps(value, how) == value

\* variant of SemaphoreExit that releases only on a normal return
SemaphoreExitLeaky(value, how) == IF how = "cancel" THEN value ELSE value + 1

\* __aexit__ of `async with self.semaphore`: release() on every way out
\* (how is "return" or "cancel")
SemaphoreExit(value, how) == value + 1

FinishTask(i, r, what) ==
    /\ pc = "collecting"
    /\ tasks' = [tasks EXCEPT ![i].state = "done", ![i].start_time = 0, ![i].result = r,
                               ![i].call = what]
    /\ semaphore' = SemaphoreExit(semaphore, "return")
    /\ doneq' = Append(doneq, i)
    /\ UNCHANGED <<config, pc, now, t0, waiters, results, completed, report>>

\* the HTTP call answers: response.read() and return TestResult(...)
Respond(i) ==
    /\ i \in TaskIds
    /\ tasks[i].state = "calling"
    /\ \E status \in Statuses :
          FinishTask(i, ResponseResult(status, BodySize(status), tasks[i].start_time), "response")

\* the HTTP call raises: asyncio.TimeoutError, aiohttp.ClientError or another Exception
Fail(i) ==
    /\ i \in TaskIds
    /\ tasks[i].state = "calling"
    /\ \E kind \in FailureKinds :
          FinishTask(i, FailureResult(kind, tasks[i].start_time), kind)

\* the HTTP call answers 200
RespondOK(i) ==
    /\ i \in TaskIds
    /\ tasks[i].state = "calling"
    /\ FinishTask(i, ResponseResult(200, BodySize(200), tasks[i].start_time), "response")

\* the HTTP call is ended by ClientTimeout(total=30, connect=10)
TimeOut(i) ==
    /\ i \in TaskIds
    /\ tasks[i].state = "calling"
    /\ FinishTask(i, FailureResult("TimeoutError", tasks[i].start_time), "TimeoutError")

\* the task is cancelled at one of its suspension points: CancelledError is a
\* BaseException, so no except clause of single_request catches it
\* wake and start_time are locals of the coroutine: they end with it
Cancelled(task) == [task EXCEPT !.state = "cancelled", !.wake = 0, !.start_time = 0]

Pending(i) == tasks[i].state \in {"created", "waiting", "sleeping", "calling"}

CancelTask(i) ==
    /\ pc = "collecting"
    /\ i \in TaskIds
    /\ Pending(i)
    /\ tasks' = [tasks EXCEPT ![i] = Cancelled(tasks[i])]
    /\ waiters' = RemoveFrom(waiters, i)
    /\ semaphore' = IF i \in Holders THEN SemaphoreExit(semaphore, "cancel") ELSE semaphore
    /\ doneq' = Append(doneq, i)
    /\ UNCHANGED <<config, pc, now, t0, results, completed, report>>

\* asyncio.run cancels every task still pending when main has ended
RECURSIVE ReleaseAll(_, _)
ReleaseAll(value, holders) ==
    IF holders = {} THEN value
    ELSE LET i == CHOOSE h \in holders : TRUE
         IN  ReleaseAll(SemaphoreExit(value, "cancel"), holders \ {i})

CancelAllTasks ==
    /\ tasks' = [i \in TaskIds |-> IF Pending(i) THEN Cancelled(tasks[i])
                                                ELSE tasks[i]]
    /\ waiters' = <<>>
    /\ semaphore' = ReleaseAll(semaphore, Holders)

\* ---- run_test: the collector ---------------------------------------------------
\* the TestResult as it sits in self.results; idx is a history field naming the
\* task it came from (TestResult itself carries no index)
Outcome(i, r) ==
    [idx |-> i, status_code |-> r.status_code, response_time |-> r.response_time,
     response_size_bytes |-> r.response_size_bytes, error |-> r.error]

\* variant of AppendResult that drops the outcomes without an HTTP response
AppendResultDrop(rs, i, r) == IF r.status_code = -1 THEN rs ELSE Append(rs, Outcome(i, r))

\* variant of AppendResult that assigns the list instead of appending to it
AppendResultOverwrite(rs, i, r) == <<Outcome(i, r)>>

\* self.results.append(result)
AppendResult(rs, i, r) == Append(rs, Outcome(i, r))

\* variant of ProgressUpdate that adds the running count instead of 1
ProgressUpdateCumulative(n) == n + (n + 1)

\* finally: progress_bar.update(1)
ProgressUpdate(n) == n + 1

\* one iteration of `for completed_task in completed_tasks` (lines 282-297)
Collect ==
    /\ pc = "collecting"
    /\ doneq # <<>>
    /\ LET i == Head(doneq) IN
          /\ doneq' = Tail(doneq)
          /\ completed' = ProgressUpdate(completed)
          /\ IF tasks[i].state = "done"
                THEN /\ results' = AppendResult(results, i, tasks[i].result)
                     /\ pc' = IF completed + 1 = config.requests THEN "run_done" ELSE "collecting"
                     /\ UNCHANGED <<tasks, semaphore, waiters>>
                ELSE \* CancelledError leaves run_test and main uncaught
                     /\ results' = results
                     /\ pc' = "crashed"
                     /\ CancelAllTasks
    /\ UNCHANGED <<config, now, t0, report>>

\* KeyboardInterrupt while main awaits: main prints "Test interrupted by user!"
Interrupt ==
    /\ pc = "collecting"
    /\ pc' = "interrupted"
    /\ CancelAllTasks
    /\ UNCHANGED <<config, now, t0, doneq, results, completed, report>>

Tick ==
    /\ pc = "collecting"
    /\ Holders # {}
    /\ now < MaxTime
    /\ now' = now + 1
    /\ UNCHANGED <<config, pc, t0, tasks, semaphore, waiters, doneq, results, completed, report>>

\* ---- StatisticsCalculator -------------------------------------------------------
Truthy(e) == e # None /\ e # ""

\* variant of IsSuccess whose lower bound is strict
IsSuccessAbove200(r) == 200 < r.status_code /\ r.status_code < 400 /\ r.error = None

IsSuccess(r) == 200 <= r.status_code /\ r.status_code < 400 /\ r.error = None

IsFailure(r) == r.status_code >= 400 \/ Truthy(r.error) \/ r.status_code = -1

\* variant of GetResponseTimes that takes the time of every outcome
GetResponseTimesAll(rs) == [k \in 1..Len(rs) |-> rs[k].response_time]

\* _get_response_times
GetResponseTimes(rs) ==
    LET sel == SelectSeq(rs, LAMBDA r : r.error = None)
    IN  [k \in 1..Len(sel) |-> sel[k].response_time]

\* a float quotient num / den, kept exact
Ratio(n, d) == [num |-> n, den |-> d]

Zero == Ratio(0, 1)

\* _print_breakdowns: status_codes[r.status_code] += 1
StatusCodes(rs) ==
    [c \in {rs[k].status_code : k \in 1..Len(rs)} |->
        Cardinality({k \in 1..Len(rs) : rs[k].status_code = c})]

\* _print_breakdowns: `if r.error: errors[r.error] += 1`
Errors(rs) ==
    [e \in {rs[k].error : k \in {j \in 1..Len(rs) : Truthy(rs[j].error)}} |->
        Cardinality({k \in 1..Len(rs) : rs[k].error = e})]

PrintSummary(rs, duration) ==
    IF rs = <<>>
       THEN [printed |-> TRUE, empty |-> TRUE]
       ELSE LET response_times == GetResponseTimes(rs)
                total_reqs == Len(rs)
                successes == Len(SelectSeq(rs, IsSuccess))
                total_data == SumSeq([k \in 1..Len(rs) |-> rs[k].response_size_bytes])
            IN
            [printed |-> TRUE, empty |-> FALSE,
             duration |-> duration,
             total_reqs |-> total_reqs,
             successes |-> successes,
             failures |-> Len(SelectSeq(rs, IsFailure)),
             success_rate |-> IF total_reqs > 0 THEN Ratio(successes * 100, total_reqs) ELSE Zero,
             total_data |-> total_data,
             actual_rps |-> IF duration > 0 THEN Ratio(total_reqs, duration) ELSE Zero,
             throughput_mbps |-> IF duration > 0 THEN Ratio(total_data * 8, duration * 1000000)
                                                 ELSE Zero,
             latency_section |-> response_times # <<>>,
             latencies_ms |-> [k \in 1..Len(response_times) |-> response_times[k] * 1000],
             status_codes |-> StatusCodes(rs),
             errors |-> Errors(rs)]

\* main: total_time = time.time() - start_time; StatisticsCalculator(...).print_summary()
Report ==
    /\ pc = "run_done"
    /\ pc' = "reported"
    /\ report' = PrintSummary(results, now - t0)
    /\ UNCHANGED <<config, now, t0, tasks, semaphore, waiters, doneq, results, completed>>

Next ==
    \/ Construct
    \/ StartRun
    \/ \E i \in 0..(MaxRequests - 1) : StartTask(i)
    \/ GrantPermit
    \/ \E i \in 0..(MaxRequests - 1) : WakeUp(i)
    \/ \E i \in 0..(MaxRequests - 1) : Respond(i)
    \/ \E i \in 0..(MaxRequests - 1) : Fail(i)
    \/ \E i \in 0..(MaxRequests - 1) : CancelTask(i)
    \/ Collect
    \/ Interrupt
    \/ Tick
    \/ Report

Spec == Init /\ [][Next]_vars

\* ---- the run that is not interrupted, with the event loop's fairness -------------
\* (what a call answers does not steer the scheduling: every call ends either
\* with a 200 response or with the timeout)
\* rate delay that is still to be waited out
RECURSIVE RemainingDelay(_)
RemainingDelay(ids) ==
    IF ids = {} THEN 0
    ELSE LET i == CHOOSE k \in ids : TRUE
             d == IF tasks[i].state \in {"created", "waiting"} THEN tasks[i].delay
                  ELSE IF tasks[i].state = "sleeping" /\ tasks[i].wake > now
                          THEN tasks[i].wake - now
                  ELSE 0
         IN  d + RemainingDelay(ids \ {i})

\* the rate delays of a run of n requests, one after the other
RECURSIVE TotalDelay(_, _)
TotalDelay(n, rate) ==
    IF n = 0 THEN 0 ELSE StaircaseDelay(n - 1, rate) + TotalDelay(n - 1, rate)

\* how far the clock has to run for every rate delay of the run to elapse
Horizon ==
    IF TotalDelay(config.requests, config.rate) > MaxTime
        THEN TotalDelay(config.requests, config.rate)
        ELSE MaxTime

\* one permit, one request a second and one request more than MaxRequests: the
\* run in which a permit holder waits out its rate delay while later requests
\* are queued for the permit
SerialConfig ==
    [requests |-> MaxRequests + 1, concurrent |-> 1, rate |-> 1, url_ok |-> TRUE]

LiveTasks == 0..MaxRequests

LiveInit ==
    /\ config \in [requests : 0..MaxRequests, concurrent : 0..MaxConcurrent,
                   rate : 0..MaxRate, url_ok : BOOLEAN] \cup {SerialConfig}
    /\ pc = "start"
    /\ now = 0
    /\ t0 = 0
    /\ tasks = <<>>
    /\ semaphore = 0
    /\ waiters = <<>>
    /\ doneq = <<>>
    /\ results = <<>>
    /\ completed = 0
    /\ report = NoReport

\* every network call ends in bounded time: the clock advances while a rate
\* delay is running, and otherwise only as far as the delays still to come fit
\* below the horizon
TickLive ==
    /\ pc = "collecting"
    /\ Holders # {}
    /\ now < Horizon
    /\ \/ \E i \in TaskIds : tasks[i].state = "sleeping" /\ tasks[i].wake > now
       \/ now + RemainingDelay(TaskIds) < Horizon
    /\ now' = now + 1
    /\ UNCHANGED <<config, pc, t0, tasks, semaphore, waiters, doneq, results, completed, report>>

LiveNext ==
    \/ Construct
    \/ StartRun
    \/ \E i \in LiveTasks : StartTask(i)
    \/ GrantPermit
    \/ \E i \in LiveTasks : WakeUp(i)
    \/ \E i \in LiveTasks : RespondOK(i)
    \/ \E i \in LiveTasks : TimeOut(i)
    \/ Collect
    \/ TickLive
    \/ Report

\* the event loop runs every callback that is ready and every timer that is due;
\* the HTTP call of every request ends (ClientTimeout(total=30) at the latest)
Fairness ==
    /\ WF_vars(Construct)
    /\ WF_vars(StartRun)
    /\ WF_vars(GrantPermit)
    /\ WF_vars(Collect)
    /\ WF_vars(TickLive)
    /\ WF_vars(Report)
    /\ \A i \in LiveTasks :
          /\ WF_vars(StartTask(i))
          /\ WF_vars(WakeUp(i))
          /\ WF_vars(RespondOK(i) \/ TimeOut(i))

LiveSpec == LiveInit /\ [][LiveNext]_vars /\ Fairness

\* ---- the run in which the collection loop itself fails -----------------------------
\* `for task in tasks: if task.done() and not task.cancelled(): ... append`
\* (lines 304-310): the outcomes of the tasks that are done, in index order
RECURSIVE DoneResults(_, _)
DoneResults(i, n) ==
    IF i >= n THEN <<>>
    ELSE IF tasks[i].state = "done"
            THEN <<Outcome(i, tasks[i].result)>> \o DoneResults(i + 1, n)
            ELSE DoneResults(i + 1, n)

\* an Exception that is raised in the collection block outside the per task
\* try (the progress bar fails to write): the handler at lines 301-319 prints
\* the error, rebuilds self.results from the tasks that are done, and run_test
\* returns normally with the other tasks still pending
CollectorFailure ==
    /\ pc = "collecting"
    /\ pc' = "run_done"
    /\ results' = DoneResults(0, config.requests)
    /\ UNCHANGED <<config, now, t0, tasks, semaphore, waiters, doneq, completed, report>>

FaultNext ==
    \/ Next
    \/ CollectorFailure

FaultSpec == Init /\ [][FaultNext]_vars

\* ---- the scenario requests=5, concurrency=2, rate=5 against a target that always
\* answers 200 within a few milliseconds (no whole second passes) ------------------
ScenarioConfig == [requests |-> 5, concurrent |-> 2, rate |-> 5, url_ok |-> TRUE]

ScenarioTasks == 0..(ScenarioConfig.requests - 1)

ScenarioInit ==
    /\ config = ScenarioConfig
    /\ pc = "start"
    /\ now = 0
    /\ t0 = 0
    /\ tasks = <<>>
    /\ semaphore = 0
    /\ waiters = <<>>
    /\ doneq = <<>>
    /\ results = <<>>
    /\ completed = 0
    /\ report = NoReport

ScenarioNext ==
    \/ Construct
    \/ StartRun
    \/ \E i \in ScenarioTasks : StartTask(i)
    \/ GrantPermit
    \/ \E i \in ScenarioTasks : RespondOK(i)
    \/ Collect
    \/ Report

ScenarioSpec == ScenarioInit /\ [][ScenarioNext]_vars

\* ---- properties ------------------------------------------------------------------
RunEnded == pc \in {"run_done", "reported"}

OutcomesOf(i) == {k \in 1..Len(results) : results[k].idx = i}

C2_PermitBound == Cardinality(Holders) <= config.concurrent

\* every permit is held while another task waits for one
C2_Witness ==
    /\ Cardinality(Holders) = config.concurrent
    /\ config.concurrent >= 1
    /\ waiters # <<>>

\* C3: a request with index i never starts its network call earlier than
\* floor(i / R) seconds after the start of the run.
C3_RateInvariant ==
    \A i \in TaskIds :
        tasks[i].state = "calling" => tasks[i].start_time >= t0 + (i \div config.rate)

\* a request of a later group (floor(i / R) >= 1) is in its network call
C3_Witness ==
    \E i \in TaskIds :
        /\ tasks[i].state = "calling"
        /\ i \div config.rate >= 1
        /\ tasks[i].start_time = t0 + (i \div config.rate)

\* C4: an invocation waits out its rate delay first and only then acquires a
\* permit, so every permit that is taken belongs to an invocation that is in
\* its network call, never to one still waiting out its delay.
C4_NoPermitDuringDelay ==
    pc = "collecting" =>
        config.concurrent - semaphore
            <= Cardinality({i \in TaskIds : tasks[i].state = "calling"})

\* C5: every permit acquisition is matched by exactly one release whatever the
\* outcome (response, timeout, client error, unexpected exception, cancellation):
\* the permits that are free plus those held always add up to C, and once all N
\* invocations have settled, C permits are free.
C5_NoPermitLeak ==
    pc \notin {"start", "config_error"} =>
        /\ semaphore + Cardinality(Holders) = config.concurrent
        /\ (\A i \in TaskIds : Settled(i)) => semaphore = config.concurrent

\* all invocations have settled, by a timeout and by a cancellation among others
C5_Witness ==
    /\ TaskIds # {}
    /\ \A i \in TaskIds : Settled(i)
    /\ \E i \in TaskIds : tasks[i].state = "cancelled"
    /\ \E i \in TaskIds : tasks[i].state = "done" /\ tasks[i].result.error = "TimeoutError"
    /\ semaphore = config.concurrent

\* C6: for a task that ended without a value (cancelled before it built an
\* outcome) the collector appends a fallback outcome and goes on, so every task
\* the collector has taken from as_completed has left an outcome in self.results
\* and the collection is never abandoned.
C6_FallbackForCancelledTask ==
    /\ Len(results) = completed
    /\ pc # "crashed"

\* C7: when the run is aborted by an external interrupt after k > 0 outcomes were
\* collected, a (partial) report is produced from those k outcomes.
C7_PartialReportOnInterrupt ==
    (pc = "interrupted" /\ Len(results) > 0) =>
        /\ report.printed
        /\ report.total_reqs = Len(results)

WellFormedResponse(r) ==
    /\ r.error = None
    /\ r.status_code \in 100..599
    /\ r.response_size_bytes >= 0
    /\ r.response_time >= 0

WellFormedFailure(r) ==
    /\ r.error \in FailureKinds
    /\ r.error # ""
    /\ r.status_code = -1
    /\ r.response_size_bytes = 0
    /\ r.response_time >= 0

\* C8: no failure of the HTTP call (timeout, client error, any other exception)
\* leaves single_request: the invocation returns an outcome with status_code -1,
\* size 0 and a non-empty error tag, the collector appends it, and the run is
\* abandoned only when a task was cancelled, never because of a failed call.
C8_FailuresBecomeOutcomes ==
    /\ \A i \in TaskIds :
          tasks[i].state = "done" =>
              WellFormedResponse(tasks[i].result) \/ WellFormedFailure(tasks[i].result)
    /\ \A k \in 1..Len(results) :
          results[k].error # None => WellFormedFailure(results[k])
    /\ \A k \in 1..Len(results) :
          results[k].status_code = -1 => WellFormedFailure(results[k])
    /\ pc = "crashed" => \E i \in TaskIds : tasks[i].state = "cancelled"

\* the first request timed out and the run went on to collect a 200 response
C8_Witness ==
    /\ pc = "run_done"
    /\ Len(results) >= 2
    /\ results[1].error = "TimeoutError"
    /\ results[1].status_code = -1
    /\ results[2].status_code = 200

\* C9: the report classifies every outcome as exactly one of success or failure:
\* no outcome is both, and the two counts add up to the total.
C9_SuccessFailurePartition ==
    pc = "reported" =>
        /\ report.successes + report.failures = report.total_reqs
        /\ \A k \in 1..Len(results) : ~(IsSuccess(results[k]) /\ IsFailure(results[k]))

\* C10: the latency samples of the report are exactly the elapsed times (in ms)
\* of the successful outcomes (200 <= status_code < 400, no error).
C10_LatencyOnlyFromSuccesses ==
    pc = "reported" =>
        LET succ == SelectSeq(results, IsSuccess)
        IN  report.latencies_ms = [k \in 1..Len(succ) |-> succ[k].response_time * 1000]

\* C11: for a non-empty result set without a successful outcome the report has
\* no latency section, nothing is divided by zero, and actual_rps and throughput
\* are computed from all outcomes (total count and total bytes over the
\* duration), or are 0 when the duration is not positive.
C11_ZeroSuccessReport ==
    (pc = "reported" /\ ~report.empty /\ Len(SelectSeq(results, IsSuccess)) = 0) =>
        /\ ~report.latency_section
        /\ report.actual_rps.den # 0
        /\ report.throughput_mbps.den # 0
        /\ report.success_rate.den # 0
        /\ report.actual_rps =
              IF now - t0 > 0 THEN Ratio(Len(results), now - t0) ELSE Zero
        /\ report.throughput_mbps =
              IF now - t0 > 0
                 THEN Ratio(8 * SumSeq([k \in 1..Len(results) |-> results[k].response_size_bytes]),
                            (now - t0) * 1000000)
                 ELSE Zero

BadConfig ==
    \/ config.requests <= 0
    \/ config.concurrent <= 0
    \/ config.rate <= 0
    \/ ~config.url_ok

\* C12: with requests <= 0, concurrent <= 0, rate <= 0 or a URL without an
\* http:// or https:// scheme the construction fails with a configuration error
\* before any request task is created: no task exists, nothing is collected or
\* reported, and the result set stays empty.
C12_ConfigErrorBeforeDispatch ==
    BadConfig =>
        /\ pc \in {"start", "config_error"}
        /\ tasks = <<>>
        /\ results = <<>>
        /\ doneq = <<>>
        /\ completed = 0
        /\ ~report.printed

\* the construction has failed on a rate of 0 with everything else valid
C12_Witness ==
    /\ pc = "config_error"
    /\ config.rate = 0
    /\ config.requests > 0
    /\ config.concurrent > 0
    /\ config.url_ok

Acquired(i) == i \in TaskIds /\ tasks[i].state \in {"sleeping", "calling", "done"}

\* C13: permit acquisition is starvation-free: when every network call ends in
\* bounded time, every invocation that waits for a permit eventually acquires one.
C13_StarvationFree ==
    \A i \in LiveTasks :
        (i \in TaskIds /\ tasks[i].state = "waiting") ~> Acquired(i)

\* an invocation that was queued for a permit has acquired one
C13_Witness ==
    \E i \in TaskIds : tasks[i].waited /\ Acquired(i)

Dispatched(i) == tasks[i].state \in {"calling", "done"}

\* C14: dispatch follows index order: for i < j the rate delay of i elapses (i
\* is free to start its network call) no later than that of j, so once j has
\* started its call, i has started (or was cancelled) and did not start later;
\* the completion order is free, and whatever it is the collector ends a full
\* run with the outcome of every index.
C14_DispatchInIndexOrder ==
    /\ \A i \in TaskIds : \A j \in TaskIds :
          (i < j /\ Dispatched(j)) =>
              /\ Dispatched(i) \/ tasks[i].state = "cancelled"
              /\ (tasks[i].state = "calling" /\ tasks[j].state = "calling")
                    => tasks[i].start_time <= tasks[j].start_time
    /\ RunEnded => {results[k].idx : k \in 1..Len(results)} = 0..(config.requests - 1)

\* request 1 started its call a second after request 0, and finished first
C14_Witness ==
    /\ 1 \in TaskIds
    /\ tasks[0].state = "calling"
    /\ tasks[1].state = "done"
    /\ tasks[1].delay >= 1
    /\ tasks[1].result.response_time = 0
    /\ now >= tasks[0].start_time + 1
    /\ doneq = <<1>>

AllTimedOut == TaskIds # {} /\ \A i \in TaskIds : tasks[i].call = "TimeoutError"

\* C16: when every request of a run timed out, the report shows 0 successes and
\* N failures, all of the timeout error kind, a status breakdown of exactly
\* {-1: N}, and no latency section.
C16_AllTimeoutsReport ==
    (pc = "reported" /\ AllTimedOut) =>
        /\ report.total_reqs = config.requests
        /\ report.successes = 0
        /\ report.failures = config.requests
        /\ report.errors = [e \in {"TimeoutError"} |-> config.requests]
        /\ report.status_codes = [c \in {-1} |-> config.requests]
        /\ ~report.latency_section
        /\ report.latencies_ms = <<>>

\* the report of a run of MaxRequests requests that all timed out
C16_Witness ==
    /\ pc = "reported"
    /\ AllTimedOut
    /\ config.requests = MaxRequests

\* C17: with requests=5, concurrency=2, rate=5 and a target that always answers
\* 200, the run ends with a report of 5 successes, 0 failures, a success rate of
\* 100%, no error breakdown and a status breakdown of exactly {200: 5}.
C17_ScenarioAll200 ==
    /\ pc \notin {"config_error", "crashed", "interrupted"}
    /\ pc = "reported" =>
          /\ report.total_reqs = 5
          /\ report.successes = 5
          /\ report.failures = 0
          /\ report.success_rate.num = 100 * report.success_rate.den
          /\ DOMAIN report.errors = {}
          /\ report.status_codes = [c \in {200} |-> 5]

\* the report of the scenario, with the five requests collected out of index order
C17_Witness ==
    /\ pc = "reported"
    /\ config = ScenarioConfig
    /\ Len(results) = 5
    /\ results[1].idx = 1
    /\ report.successes = 5

\* C18: the result set never holds more than N outcomes, and a run that ends
\* without an interrupt (run_test has returned) holds exactly N of them, also
\* after a failure inside the collection loop that is not an interrupt.
C18_ResultSetSize ==
    /\ Len(results) <= config.requests
    /\ RunEnded => Len(results) = config.requests

\* C19: the completed count of the progress bar only ever grows during a run,
\* by one for each settled request the collector takes, it never exceeds N, and
\* a step that updates it leaves the outcomes already in the result set as they
\* are (at most the outcome of the request just taken is appended).
C19_ProgressMonotone ==
    [][/\ completed' \in {completed, completed + 1}
       /\ completed' <= config.requests
       /\ completed' <= Cardinality({i \in DOMAIN tasks' : tasks'[i].state \in {"done", "cancelled"}})
       /\ completed' = completed + 1 =>
             /\ Len(results') \in {Len(results), Len(results) + 1}
             /\ SubSeq(results', 1, Len(results)) = results]_vars

\* the progress bar has reached N = MaxRequests with every outcome collected
C19_Witness ==
    /\ completed = MaxRequests
    /\ config.requests = MaxRequests
    /\ Len(results) = MaxRequests

\* C20: the elapsed time of an outcome is measured from a start taken after the
\* rate delay of its request has elapsed: it is not negative, and together with
\* the rate delay floor(i / R) it fits into the time the run has lasted, so it
\* holds neither the rate delay nor the time the task was queued before it.
C20_ElapsedExcludesDelay ==
    /\ \A i \in TaskIds :
          tasks[i].state = "done" =>
              /\ tasks[i].result.response_time >= 0
              /\ tasks[i].result.response_time + (i \div config.rate) <= now - t0
    /\ \A k \in 1..Len(results) :
              /\ results[k].response_time >= 0
              /\ results[k].response_time + (results[k].idx \div config.rate) <= now - t0

\* a request with a rate delay of a second whose call took a second
C20_Witness ==
    \E k \in 1..Len(results) :
        /\ results[k].idx \div config.rate >= 1
        /\ results[k].response_time >= 1
        /\ results[k].error = None

\* C21: the result set has a single writer. A step of a request executor (a
\* step that changes a task) leaves the result set as it is; the result set
\* changes only in a step of the collector in run_test, while it collects; and
\* during a run the outcome of a request, once it is in the result set, stays
\* there with the same content and is never there twice.
C21_SingleWriter ==
    [][/\ results' # results => (pc = "collecting" /\ tasks' = tasks)
       /\ \A k \in 1..Len(results) :
             \E j \in 1..Len(results') : results'[j] = results[k]
       /\ \A j1, j2 \in 1..Len(results') :
             results'[j1].idx = results'[j2].idx => j1 = j2]_vars

\* an outcome is in the result set while the executor of another request is
\* still at work
C21_Witness ==
    /\ pc = "collecting"
    /\ Len(results) >= 1
    /\ \E i \in TaskIds :
          /\ tasks[i].state \in {"sleeping", "calling"}
          /\ \A k \in 1..Len(results) : results[k].idx # i

====
